---- MODULE Spec2Model ----
(***************************************************************************)
(* A model of bcopy's collection pipeline: the directory walk with its     *)
(* symlink bookkeeping and depth limit, the inclusion filter, the bounded  *)
(* worker pool of Collect with cancellation, the aggregation of the        *)
(* result, its rendering as Markdown, and the validation of the path the   *)
(* command line hands to Collect.                                          *)
(*                                                                         *)
(* Strings are sequences of byte values, so that byte-wise comparison,     *)
(* separators, suffixes and extensions are computed as the Go code         *)
(* computes them.  Each string literal carries its text in a comment.      *)
(***************************************************************************)
EXTENDS Integers, Sequences, FiniteSets, TLC

\* os.PathSeparator on the platforms the walk is modelled for ('/').
PathSeparator == 47

\* The byte '.', which starts an extension.
DotByte == 46

\* The NUL byte position scan of isBinaryFile covers a buffer of this size.
BinaryProbeLen == 8192

\* Bytes per megabyte in the size limit test (1024 * 1024).
BytesPerMB == 1048576

\* errgroup's SetLimit argument.
PoolLimit == 16

---------------------------------------------------------------------------
(* strings *)

Min(a, b) == IF a < b THEN a ELSE b

\* Go's string comparison s < t: byte-wise lexicographic.
RECURSIVE StrLess(_, _)
StrLess(s, t) ==
  IF t = <<>> THEN FALSE
  ELSE IF s = <<>> THEN TRUE
  ELSE IF s[1] # t[1] THEN s[1] < t[1]
  ELSE StrLess(Tail(s), Tail(t))

\* strings.Count(s, c) for a one-byte c.
StrCount(s, c) == Cardinality({i \in 1..Len(s) : s[i] = c})

\* s[i : i+len(t)] == t  (1-based i).
SubAt(s, i, t) ==
  /\ i >= 1
  /\ i + Len(t) - 1 <= Len(s)
  /\ \A k \in 1..Len(t) : s[i + k - 1] = t[k]

HasPrefix(s, t) == SubAt(s, 1, t)

HasSuffix(s, t) == Len(t) <= Len(s) /\ SubAt(s, Len(s) - Len(t) + 1, t)

Contains(s, t) == \E i \in 1..(Len(s) + 1) : SubAt(s, i, t)

\* The index of the last byte c of s, 0 when there is none.
LastIndexByte(s, c) ==
  LET hits == {i \in 1..Len(s) : s[i] = c}
  IN  IF hits = {} THEN 0 ELSE CHOOSE i \in hits : \A k \in hits : k <= i

\* filepath.ToSlash: every separator becomes '/'.
ToSlash(p) == [i \in 1..Len(p) |-> IF p[i] = PathSeparator THEN 47 ELSE p[i]]

\* filepath.Base for a clean, non-empty path: the last element.
Base(p) == SubSeq(p, LastIndexByte(p, PathSeparator) + 1, Len(p))

\* filepath.Ext: the suffix from the last '.' of the last element, or "".
Ext(p) ==
  LET b == Base(p)
      d == LastIndexByte(b, DotByte)
  IN  IF d = 0 THEN <<>> ELSE SubSeq(b, d, Len(b))

\* filepath.Dir for a clean relative path ("." when there is no separator).
Dir(p) ==
  LET k == LastIndexByte(p, PathSeparator)
  IN  IF k = 0 THEN <<46>> ELSE SubSeq(p, 1, k - 1)

\* filepath.Join(dir, name) relative to the root; the root itself is ".".
Join(dir, name) == IF dir = <<46>> THEN name ELSE dir \o <<47>> \o name

---------------------------------------------------------------------------
(* analyzer.Filter *)

\* A compiled exclusion pattern.  The regular expressions of NewFilter have
\* three shapes, each with a set of alternatives:
\*   comp    (^|/)alt($|/)   a path element equal to alt
\*   suffix  alt$            the path ends with alt
\*   sub     alt             the path contains alt
\* ok is FALSE for a pattern regexp.Compile rejects.
Comp(alts)   == [kind |-> "comp", alts |-> alts, ok |-> TRUE]
Suffix(alts) == [kind |-> "suffix", alts |-> alts, ok |-> TRUE]
Sub(alts)    == [kind |-> "sub", alts |-> alts, ok |-> TRUE]

\* re.MatchString(path)
MatchString(re, path) ==
  CASE re.kind = "comp" ->
         \E a \in re.alts : \E i \in 1..Len(path) :
           /\ SubAt(path, i, a)
           /\ (i = 1 \/ path[i - 1] = 47)
           /\ (i + Len(a) - 1 = Len(path) \/ path[i + Len(a)] = 47)
    [] re.kind = "suffix" -> \E a \in re.alts : HasSuffix(path, a)
    [] OTHER -> \E a \in re.alts : Contains(path, a)

defaultExts ==
  { <<46,103,111>>, <<46,112,121>>, <<46,106,115>>, <<46,106,115,120>>, <<46,116,115>>, <<46,116,115,120>>, <<46,118,117,101>>, <<46,115,118,101,108,116,101>>,
    <<46,109,106,115>>, <<46,99,106,115>>, <<46,121,97,109,108>>, <<46,121,109,108>>, <<46,106,115,111,110>>, <<46,116,111,109,108>>, <<46,109,100>>, <<46,116,120,116>>,
    <<46,115,104>>, <<46,98,97,115,104>>, <<46,99>>, <<46,99,112,112>>, <<46,104>>, <<46,104,112,112>>, <<46,114,115>>, <<46,106,97,118,97>>,
    <<46,114,98>>, <<46,112,104,112>>, <<46,115,119,105,102,116>>, <<46,107,116>> }

alwaysExclude ==
  << Comp({ <<110,111,100,101,95,109,111,100,117,108,101,115>> }),
     Comp({ <<118,101,110,118>> }),
     Comp({ <<46,118,101,110,118>> }),
     Comp({ <<95,95,112,121,99,97,99,104,101,95,95>> }),
     Comp({ <<46,103,105,116>> }),
     Comp({ <<100,105,115,116>> }),
     Comp({ <<98,117,105,108,100>> }),
     Comp({ <<46,101,103,103,45,105,110,102,111>> }),
     Comp({ <<46,116,111,120>> }),
     Comp({ <<99,111,118,101,114,97,103,101>> }),
     Comp({ <<46,110,101,120,116>> }),
     Comp({ <<118,101,110,100,111,114>> }),
     Comp({ <<98,105,110>> }),
     Comp({ <<116,109,112>> }),
     Suffix({ <<46,108,111,99,107>> }),
     Suffix({ <<45,108,111,99,107,46,106,115,111,110>> }),
     Suffix({ <<45,108,111,99,107,46,121,97,109,108>> }),
     Suffix({ <<80,105,112,102,105,108,101,46,108,111,99,107>> }),
     Suffix({ <<46,103,105,116,105,103,110,111,114,101>> }),
     Suffix({ <<46,101,120,101>> }),
     Suffix({ <<46,115,111>> }),
     Suffix({ <<46,100,121,108,105,98>> }),
     Suffix({ <<46,100,108,108>> }),
     Suffix({ <<95,116,101,109,112,108,46,103,111>> }),
     Suffix({ <<46,106,112,103>>, <<46,106,112,101,103>>, <<46,112,110,103>>, <<46,103,105,102>>, <<46,98,109,112>>, <<46,115,118,103>>, <<46,105,99,111>>,
              <<46,119,101,98,112>>, <<46,116,105,102,102>>, <<46,116,105,102>>, <<46,112,115,100>>, <<46,114,97,119>>, <<46,104,101,105,99>>, <<46,97,118,105,102>> }),
     Suffix({ <<46,112,121,99>> }),
     Suffix({ <<46,112,121,111>> }),
     Suffix({ <<46,112,121,100>> }),
     Suffix({ <<46,101,103,103>> }),
     Comp({ <<46,101,103,103,115>> }),
     Comp({ <<46,112,121,116,101,115,116,95,99,97,99,104,101>> }),
     Comp({ <<46,109,121,112,121,95,99,97,99,104,101>> }),
     Suffix({ <<46,112,98,46,103,111>> }),
     Suffix({ <<95,103,101,110,46,103,111>> }),
     Suffix({ <<46,109,105,110,46,106,115>> }),
     Suffix({ <<46,98,117,110,100,108,101,46,106,115>> }),
     Sub({ <<46,101,115,108,105,110,116,99,97,99,104,101>> }),
     Comp({ <<46,110,121,99,95,111,117,116,112,117,116>> }),
     Comp({ <<46,121,97,114,110>> }),
     Comp({ <<46,110,112,109>> }),
     Comp({ <<99,121,112,114,101,115,115>> }),
     Comp({ <<106,101,115,116,45,99,97,99,104,101>> }) >>

testPatterns ==
  << Suffix({ <<95,116,101,115,116,46,103,111>> }),
     Comp({ <<116,101,115,116>>, <<116,101,115,116,115>> }),
     Suffix({ <<46,116,101,115,116,46,106,115>>, <<46,116,101,115,116,46,116,115>>, <<46,116,101,115,116,46,106,115,120>>, <<46,116,101,115,116,46,116,115,120>> }),
     Suffix({ <<46,115,112,101,99,46,106,115>>, <<46,115,112,101,99,46,116,115>>, <<46,115,112,101,99,46,106,115,120>>, <<46,115,112,101,99,46,116,115,120>> }) >>

\* A compile loop that stops at the first pattern that does not compile.
RECURSIVE CompiledUntilError(_)
CompiledUntilError(ps) ==
  IF ps = <<>> THEN <<>>
  ELSE IF Head(ps).ok THEN <<Head(ps)>> \o CompiledUntilError(Tail(ps))
  ELSE <<>>

\* The patterns that compile, in order (NewFilter's loop over allPatterns).
RECURSIVE Compiled(_)
Compiled(ps) ==
  IF ps = <<>> THEN <<>>
  ELSE IF Head(ps).ok THEN <<Head(ps)>> \o Compiled(Tail(ps))
  ELSE Compiled(Tail(ps))

\* A NewFilter that appends the test patterns whatever excludeTests says.
NewFilterTestsAlways(allowedExts, customExcludes, respectGitignore, excludeTests) ==
  [ allowedExts      |-> IF allowedExts = {} THEN defaultExts
                         ELSE { IF HasPrefix(e, <<46>>) THEN e ELSE <<46>> \o e
                                : e \in allowedExts },
    excludePatterns  |-> Compiled(alwaysExclude \o testPatterns \o customExcludes),
    gitignoreGlobs   |-> <<>>,
    respectGitignore |-> respectGitignore,
    excludeTests     |-> excludeTests ]

\* analyzer.NewFilter.  allowedExts is a set of extensions as the caller
\* wrote them (with or without the leading dot), customExcludes a sequence
\* of patterns.
NewFilter(allowedExts, customExcludes, respectGitignore, excludeTests) ==
  [ allowedExts      |-> IF allowedExts = {} THEN defaultExts
                         ELSE { IF HasPrefix(e, <<46>>) THEN e ELSE <<46>> \o e
                                : e \in allowedExts },
    excludePatterns  |-> Compiled(alwaysExclude
                                  \o (IF excludeTests THEN testPatterns ELSE <<>>)
                                  \o customExcludes),
    gitignoreGlobs   |-> <<>>,
    respectGitignore |-> respectGitignore,
    excludeTests     |-> excludeTests ]

\* A compiled ignore glob "**/" lit or lit, with "**" appended when the
\* line named a directory: pre says the glob starts with "**/", post that
\* it ends with "**".  '**' matches any run of bytes, separators included.
GlobMatch(g, path) ==
  LET body == (IF g.pre THEN <<47>> ELSE <<>>) \o g.lit
  IN  CASE g.pre /\ g.post   -> Contains(path, body)
        [] g.pre /\ ~g.post  -> HasSuffix(path, body)
        [] ~g.pre /\ g.post  -> HasPrefix(path, body)
        [] OTHER             -> path = body

\* No conventional extensionless names.
commonNoExtFilesNone == {}

commonNoExtFiles ==
  { <<77,97,107,101,102,105,108,101>>, <<68,111,99,107,101,114,102,105,108,101>>, <<82,97,107,101,102,105,108,101>>, <<71,101,109,102,105,108,101>>, <<80,114,111,99,102,105,108,101>>, <<86,97,103,114,97,110,116,102,105,108,101>> }

\* A ShouldInclude that tests the extension before the exclusions.
ShouldIncludeExtFirst(f, p) ==
  LET path == ToSlash(p)
      ext == Ext(path)
      filename == Base(path)
  IN  IF ext = <<>> /\ filename \in commonNoExtFiles THEN TRUE
      ELSE IF ext # <<>> /\ ext \in f.allowedExts THEN TRUE
      ELSE IF \E i \in 1..Len(f.excludePatterns) : MatchString(f.excludePatterns[i], path)
        THEN FALSE
      ELSE IF f.respectGitignore
              /\ \E i \in 1..Len(f.gitignoreGlobs) : GlobMatch(f.gitignoreGlobs[i], path)
        THEN FALSE
      ELSE FALSE

\* Filter.ShouldInclude
ShouldInclude(f, p) ==
  LET path == ToSlash(p)
      ext == Ext(path)
      filename == Base(path)
  IN  IF \E i \in 1..Len(f.excludePatterns) : MatchString(f.excludePatterns[i], path)
        THEN FALSE
      ELSE IF f.respectGitignore
              /\ \E i \in 1..Len(f.gitignoreGlobs) : GlobMatch(f.gitignoreGlobs[i], path)
        THEN FALSE
      ELSE IF ext = <<>> THEN filename \in commonNoExtFiles
      ELSE IF ext \notin f.allowedExts THEN FALSE
      ELSE TRUE

---------------------------------------------------------------------------
(* bounds of the inputs *)

\* maxDepth is drawn from 0..MaxDepthArg.
MaxDepthArg == 2

\* maxFileSizeMB is drawn from -1..MaxSizeArg (whole megabytes).
MaxSizeArg == 1

---------------------------------------------------------------------------
(* the directory trees Collect is run on *)

\* An entry below the root: its path relative to the root, its kind, for a
\* symbolic link its fully resolved target ("." is the root, "" a broken
\* link), and whether listing it fails.
File(p)       == [path |-> p, kind |-> "file", target |-> <<>>, readErr |-> FALSE]
Directory(p)  == [path |-> p, kind |-> "dir", target |-> <<>>, readErr |-> FALSE]
Unreadable(p) == [path |-> p, kind |-> "dir", target |-> <<>>, readErr |-> TRUE]
Link(p, t)    == [path |-> p, kind |-> "symlink", target |-> t, readErr |-> FALSE]

\* root/a.txt, root/sub/b.txt and one level more.
TreeDepth ==
  { File(<<97,46,116,120,116>>), Directory(<<115,117,98>>), File(<<115,117,98,47,98,46,116,120,116>>),
    Directory(<<115,117,98,47,100,101,101,112>>), File(<<115,117,98,47,100,101,101,112,47,99,46,103,111>>) }

\* A directory whose name sorts before a sibling file that sorts before the
\* directory's content byte-wise ("a" < "a.txt" but "a.txt" < "a/b.go"),
\* an excluded directory, a test file and a file with no extension.
TreeOrder ==
  { Directory(<<97>>), File(<<97,47,98,46,103,111>>), File(<<97,47,98,95,116,101,115,116,46,103,111>>), File(<<97,46,116,120,116>>),
    Directory(<<110,111,100,101,95,109,111,100,117,108,101,115>>), File(<<110,111,100,101,95,109,111,100,117,108,101,115,47,120,46,106,115>>), File(<<110,111,116,101,115>>) }

\* Symbolic links: a broken one, one to an ancestor (a cycle), two to the
\* same directory (one of them named like a source file), an unreadable
\* directory and a regular file that sorts after the links.
TreeLinks ==
  { Link(<<98,114,111,107,101,110>>, <<>>), Directory(<<100>>), Link(<<100,47,108,111,111,112>>, <<46>>),
    File(<<100,47,120,46,103,111>>), Link(<<101,46,103,111>>, <<100>>), Unreadable(<<107>>), File(<<107,47,113,46,103,111>>),
    Link(<<108,49>>, <<100>>), File(<<109,46,103,111>>) }

\* The number of files of the wide directory.
NumWide == 17

\* One directory of NumWide source files, "a.go", "b.go", ...: more jobs
\* than the pool runs at once.
TreeWide == { File(<<96 + i>> \o <<46,103,111>>) : i \in 1..NumWide }

\* The file systems by name; the state holds the name of the one below
\* rootPath.
Trees ==
  [depth |-> TreeDepth, order |-> TreeOrder, links |-> TreeLinks, wide |-> TreeWide]

\* How the root itself fails: not at all, on Lstat, or on ReadDir.
RootErrs == {"none", "lstat", "readdir"}

\* The Filter objects Collect is handed a pointer to: NewFilter's defaults,
\* without and with the test-file patterns, and one that allows .txt only.
Filters ==
  [default      |-> NewFilter({}, <<>>, TRUE, FALSE),
   excludeTests |-> NewFilter({}, <<>>, TRUE, TRUE),
   txtOnly      |-> NewFilter({ <<116,120,116>> }, <<>>, TRUE, FALSE)]

---------------------------------------------------------------------------
(* state *)

VARIABLES
  tree,          \* the file system below rootPath (a name in Trees)
  rootErr,       \* how the root fails
  filter,        \* filter *analyzer.Filter (a name in Filters)
  maxDepth,      \* Collect's maxDepth
  maxFileSizeMB, \* Collect's maxFileSizeMB
  ctxDone,       \* the caller's context has been cancelled
  pc,            \* where Collect's own goroutine is
  walkStack,     \* WalkDir's pending entries, one frame per open directory
  visitedDirs,   \* visitedDirs (its true keys)
  fileJobs,      \* fileJobs
  listed,        \* history: the real directories ReadDir was called on, in order
  next,          \* the number of jobs handed to eg.Go
  worker,        \* per job: "idle", "check", "run" or "done"
  cancelledAtCheck, \* history, per job: was ctx cancelled when its check ran
  outcome,       \* history, per job: how its file was dealt with
  found,         \* history, per job: the file its worker found
  egErr,         \* the errgroup's first error
  resultsChan,   \* the buffered channel's content
  chanClosed,    \* close(resultsChan) has run
  result,        \* *CollectionResult being built
  arrived,       \* history: the RelPaths in the order the aggregator got them
  ret,           \* what Collect returned
  flArgs,        \* the arguments NewFilter was called with
  fl,            \* a *Filter as NewFilter and LoadGitignore leave it
  flPc,          \* "new": constructed; "ready": after the ignore-file load
  flFile,        \* the ignore file LoadGitignore was given
  flErr,         \* what LoadGitignore returned ("unset": not called)
  flCalls,       \* history: the ShouldInclude calls, path and answer
  fmIn,          \* FormatAsMarkdown's result.Files
  fmIdx,         \* its loop index i
  fmOut,         \* its strings.Builder
  fmSeps,        \* history: the separators it wrote
  fmPc,          \* "loop" or "done"
  vpArg,         \* the command line's path argument (NoArg: none given)
  vpCwd,         \* the working directory ("" when Getwd fails)
  vpHome,        \* os.UserHomeDir ("" when it fails)
  vpPath,        \* main's path
  vpErr,         \* what ValidatePath returned ("unset": not called)
  cliPc          \* where runBcopy is

vars == << tree, rootErr, filter, maxDepth, maxFileSizeMB, ctxDone, pc,
           walkStack, visitedDirs, fileJobs, listed, next, worker,
           cancelledAtCheck, outcome, found, egErr, resultsChan, chanClosed, result,
           arrived, ret, flArgs, fl, flPc, flFile, flErr, flCalls,
           fmIn, fmIdx, fmOut, fmSeps, fmPc,
           vpArg, vpCwd, vpHome, vpPath, vpErr, cliPc >>

inputs == << tree, rootErr, filter, maxDepth, maxFileSizeMB >>
walkVars == << walkStack, visitedDirs, fileJobs, listed >>
poolVars == << next, worker, cancelledAtCheck, outcome, found, egErr, resultsChan, chanClosed >>
collectVars == << inputs, ctxDone, pc, walkVars, poolVars, result, arrived, ret >>
filterVars == << flArgs, fl, flPc, flFile, flErr, flCalls >>
formatVars == << fmIn, fmIdx, fmOut, fmSeps, fmPc >>
validateVars == << vpArg, vpCwd, vpHome, vpPath, vpErr, cliPc >>

RootPath == <<46>>

\* The root as a directory entry.
RootNode == [path |-> RootPath, kind |-> "dir", target |-> <<>>,
             readErr |-> rootErr = "readdir"]

\* The entry at a real path.
NodeAt(p) == IF p = RootPath THEN RootNode ELSE CHOOSE n \in Trees[tree] : n.path = p

\* d.Type()&os.ModeSymlink != 0
IsSymlink(n) == n.kind = "symlink"

\* d.IsDir() had the entry been stat'ed through its link (os.Stat).
IsDirStat(n) ==
  \/ n.kind = "dir"
  \/ n.kind = "symlink" /\ n.target # <<>> /\ NodeAt(n.target).kind = "dir"

\* d.IsDir() of the fs.DirEntry WalkDir hands over (from Lstat / ReadDir: a
\* symbolic link is never a directory).
IsDir(n) == n.kind = "dir"

\* The real directory a walk entry's listing reads.
RealDir(n) == IF n.kind = "symlink" THEN n.target ELSE n.path

\* The entries of a set ordered by file name, as os.ReadDir returns them
\* (the names in one directory differ): the i-th has i-1 names before it.
SortByName(S) ==
  [i \in 1..Cardinality(S) |->
     CHOOSE x \in S :
       Cardinality({y \in S : StrLess(Base(y.path), Base(x.path))}) = i - 1]

\* os.ReadDir on the directory a walk path leads to: the walk entries of
\* its children (walk path and real path), none when listing fails.
ReadDir(walkPath, n) ==
  LET kids == SortByName({c \in Trees[tree] : Dir(c.path) = RealDir(n)})
  IN  IF NodeAt(RealDir(n)).readErr THEN <<>>
      ELSE [i \in 1..Len(kids) |->
              [path |-> Join(walkPath, Base(kids[i].path)), node |-> kids[i].path]]

\* depth := strings.Count(relPath, string(os.PathSeparator)) + 1
Depth(relPath) == StrCount(relPath, PathSeparator) + 1

\* A depth test that also prunes a directory exactly at the limit.
TooDeepAtLimit(relPath) == maxDepth > 0 /\ Depth(relPath) >= maxDepth

\* maxDepth > 0 && depth > maxDepth
TooDeep(relPath) == maxDepth > 0 /\ Depth(relPath) > maxDepth

\* The callback from the directory test on: n is the entry, relPath its
\* path relative to the root.
VisitEntry(n, relPath, vd, jobs) ==
  IF IsDir(n)
    THEN IF relPath # RootPath
            /\ (TooDeep(relPath)
                \/ ~ShouldInclude(Filters[filter], relPath \o <<47,100,117,109,109,121,46,103,111>>))
           THEN [ret |-> "SkipDir", vd |-> vd, jobs |-> jobs]
           ELSE [ret |-> "nil", vd |-> vd, jobs |-> jobs]
  ELSE IF ~ShouldInclude(Filters[filter], relPath)
    THEN [ret |-> "nil", vd |-> vd, jobs |-> jobs]
  ELSE [ret |-> "nil", vd |-> vd,
        jobs |-> Append(jobs, [fullPath |-> n.path, relPath |-> relPath])]

\* The walk callback on the entry n at walk path relPath (err: WalkDir
\* reports an error for it), from the visited set vd and the job list jobs:
\* what it returns and what it leaves in visitedDirs and fileJobs.
WalkFn(n, relPath, err, vd, jobs) ==
  IF err THEN [ret |-> "nil", vd |-> vd, jobs |-> jobs]
  ELSE IF IsSymlink(n) /\ n.target = <<>>
    THEN [ret |-> "nil", vd |-> vd, jobs |-> jobs]
  ELSE IF IsSymlink(n) /\ n.target \in vd
    THEN [ret |-> "SkipDir", vd |-> vd, jobs |-> jobs]
  ELSE IF IsSymlink(n) /\ NodeAt(n.target).kind = "dir"
    THEN VisitEntry(n, relPath, vd \cup {n.target}, jobs)
  ELSE VisitEntry(n, relPath, vd, jobs)

\* The frames of WalkDir's recursion that still have entries to visit.
RECURSIVE DropEmpty(_)
DropEmpty(st) ==
  IF st = <<>> THEN <<>>
  ELSE IF st[Len(st)] = <<>> THEN DropEmpty(SubSeq(st, 1, Len(st) - 1))
  ELSE st

\* The walk's frames once the first entry of the top frame is dealt with:
\* "enter" pushes the listing kids, "break" leaves the parent's loop (a
\* non-directory returned SkipDir), "next" goes on and "abort" ends the walk.
Frames(st, how, kids) ==
  CASE how = "abort" -> <<>>
    [] how = "enter" ->
         DropEmpty(SubSeq(st, 1, Len(st) - 1) \o <<Tail(st[Len(st)])>> \o <<kids>>)
    [] how = "break" -> DropEmpty(SubSeq(st, 1, Len(st) - 1))
    [] OTHER -> DropEmpty(SubSeq(st, 1, Len(st) - 1) \o <<Tail(st[Len(st)])>>)

\* walkDir once its callbacks have returned r: called says whether ReadDir
\* ran.
WalkResult(st, e, n, r, called) ==
  [ret |-> r.ret, vd |-> r.vd, jobs |-> r.jobs, called |-> called,
   stack |-> Frames(st,
                    IF r.ret = "err" THEN "abort"
                    ELSE IF called /\ r.ret = "nil" THEN "enter"
                    ELSE IF r.ret = "SkipDir" /\ ~IsDir(n) THEN "break"
                    ELSE "next",
                    ReadDir(e.path, n))]

\* walkDir after the first callback returned r1: a directory let through is
\* listed, with a second callback when the listing fails.
AfterCallback(st, e, n, r1) ==
  IF r1.ret = "nil" /\ IsDir(n) /\ rootErr # "lstat"
    THEN IF NodeAt(RealDir(n)).readErr
           THEN WalkResult(st, e, n, WalkFn(n, e.path, TRUE, r1.vd, r1.jobs), TRUE)
           ELSE WalkResult(st, e, n, r1, TRUE)
    ELSE WalkResult(st, e, n, r1, FALSE)

\* filepath.WalkDir on the first entry e of the top frame of st.
WalkEntry(st, e, vd, jobs) ==
  AfterCallback(st, e, NodeAt(e.node),
                WalkFn(NodeAt(e.node), e.path, rootErr = "lstat", vd, jobs))

EmptyResult == [Files |-> <<>>, TotalSize |-> 0, FileCount |-> 0]

NoReturn == [hasResult |-> FALSE, result |-> EmptyResult, err |-> "nil"]

\* No filter under test and no rendering under way.
NoFilter == [allowedExts |-> {}, excludePatterns |-> <<>>, gitignoreGlobs |-> <<>>,
             respectGitignore |-> FALSE, excludeTests |-> FALSE]

NoIgnoreFile == [openErr |-> TRUE, lines |-> <<>>, scanErr |-> FALSE]

NoArgs == [exts |-> {}, excludes |-> <<>>, gitignore |-> FALSE, tests |-> FALSE]

FilterIdle ==
  /\ flArgs = NoArgs
  /\ fl = NoFilter
  /\ flPc = "idle"
  /\ flFile = NoIgnoreFile
  /\ flErr = "unset"
  /\ flCalls = <<>>

FormatIdle ==
  /\ fmIn = <<>>
  /\ fmIdx = 0
  /\ fmOut = <<>>
  /\ fmSeps = 0
  /\ fmPc = "idle"

\* What is remembered of the file a worker found: its size, and whether it
\* is a regular file that opens, stats and reads without error and has no
\* NUL byte in its first 8192 bytes.
FoundFile(f) ==
  [ size  |-> f.size,
    clean |-> /\ ~f.openErr /\ ~f.isDir /\ ~f.statErr /\ ~f.readErr
              /\ ~(f.nulAt >= 0 /\ f.nulAt < BinaryProbeLen) ]

\* No worker has dealt with the job.
NotFound == [size |-> -1, clean |-> FALSE]

ValidateIdle ==
  /\ vpArg = <<>>
  /\ vpCwd = <<>>
  /\ vpHome = <<>>
  /\ vpPath = <<>>
  /\ vpErr = "unset"
  /\ cliPc = "idle"

\* The state when Collect is called with one of the filters named and one
\* of the depth limits.
InitWith(filters, depths) ==
  /\ tree \in {"depth", "order", "links"}
  /\ rootErr \in RootErrs
  /\ filter \in filters
  /\ maxDepth \in depths
  /\ maxFileSizeMB \in (-1)..MaxSizeArg
  /\ ctxDone = FALSE
  /\ pc = "walk"
  /\ walkStack = << << [path |-> RootPath, node |-> RootPath] >> >>
  /\ visitedDirs = {}
  /\ fileJobs = <<>>
  /\ listed = <<>>
  /\ next = 0
  /\ worker = <<>>
  /\ cancelledAtCheck = <<>>
  /\ outcome = <<>>
  /\ found = <<>>
  /\ egErr = "nil"
  /\ resultsChan = <<>>
  /\ chanClosed = FALSE
  /\ result = EmptyResult
  /\ arrived = <<>>
  /\ ret = NoReturn
  /\ FilterIdle
  /\ FormatIdle
  /\ ValidateIdle

Init == InitWith({"default", "excludeTests"}, 0..MaxDepthArg)

\* Collect called with any of the filters and any depth limit, a negative
\* one included.
InitWalkAll == InitWith(DOMAIN Filters, (-1)..MaxDepthArg)

\* The state after the walk produced w for entry e.  When the walk is over
\* Collect returns its error, or sets up the errgroup and the results
\* channel.
Walked(e, w) ==
  /\ walkStack' = w.stack
  /\ visitedDirs' = w.vd
  /\ fileJobs' = w.jobs
  /\ listed' = IF w.called THEN Append(listed, RealDir(NodeAt(e.node))) ELSE listed
  /\ pc' = IF w.ret = "err" THEN "returned"
           ELSE IF w.stack = <<>> THEN "spawn" ELSE "walk"
  /\ ret' = IF w.ret = "err"
              THEN [hasResult |-> FALSE, result |-> EmptyResult, err |-> "walk"]
              ELSE ret
  /\ worker' = IF w.stack = <<>> THEN [i \in 1..Len(w.jobs) |-> "idle"] ELSE worker
  /\ cancelledAtCheck' = IF w.stack = <<>> THEN [i \in 1..Len(w.jobs) |-> "unset"]
                         ELSE cancelledAtCheck
  /\ outcome' = IF w.stack = <<>> THEN [i \in 1..Len(w.jobs) |-> "pending"]
                ELSE outcome
  /\ found' = IF w.stack = <<>> THEN [i \in 1..Len(w.jobs) |-> NotFound]
              ELSE found

\* One entry of filepath.WalkDir: the callback and WalkDir's reaction to what
\* it returns.
WalkStep ==
  /\ pc = "walk"
  /\ walkStack # <<>>
  /\ \E w \in {WalkEntry(walkStack, Head(walkStack[Len(walkStack)]),
                          visitedDirs, fileJobs)} :
       Walked(Head(walkStack[Len(walkStack)]), w)
  /\ UNCHANGED << validateVars, filterVars, formatVars, inputs, ctxDone, next, egErr, resultsChan, chanClosed, result, arrived >>

---------------------------------------------------------------------------
(* the files the workers find *)

\* What a worker finds at a job's path: whether open, stat or the full read
\* fail, whether it is a directory (a link to one), its size in bytes and
\* the offset of its first NUL byte (-1: none).
FileState(size, nulAt) ==
  [openErr |-> FALSE, isDir |-> FALSE, statErr |-> FALSE, readErr |-> FALSE,
   size |-> size, nulAt |-> nulAt]

RegularFiles ==
  { FileState(0, -1),                                  \* empty
    FileState(8200, -1),                               \* text
    FileState(8200, 0),                                \* NUL first
    FileState(8200, BinaryProbeLen - 1),               \* NUL last in the probe
    FileState(8200, BinaryProbeLen),                   \* NUL just after the probe
    FileState(MaxSizeArg * BytesPerMB, -1),            \* at a limit
    FileState(MaxSizeArg * BytesPerMB + 1, -1),        \* one byte over it
    [FileState(8200, -1) EXCEPT !.openErr = TRUE],
    [FileState(8200, -1) EXCEPT !.statErr = TRUE],
    [FileState(8200, -1) EXCEPT !.readErr = TRUE] }

\* What a worker can find at a job's path: a directory when the entry is a
\* link to one, any regular file otherwise.
FilesAt(job) ==
  IF LET n == NodeAt(job.fullPath)
     IN  n.kind = "symlink" /\ n.target # <<>> /\ NodeAt(n.target).kind = "dir"
    THEN { [FileState(0, -1) EXCEPT !.isDir = TRUE] }
    ELSE RegularFiles

\* isBinaryFile: (is binary, error).  Read fills up to 8192 bytes; it fails
\* with no byte read on a directory and at the end of an empty file.
isBinaryFile(f) ==
  LET n == IF f.isDir THEN 0 ELSE Min(f.size, BinaryProbeLen)
      readFails == f.isDir \/ f.size = 0
  IN  IF f.openErr THEN [binary |-> FALSE, err |-> TRUE]
      ELSE IF readFails /\ n = 0 THEN [binary |-> FALSE, err |-> TRUE]
      ELSE [binary |-> f.nulAt # -1 /\ f.nulAt < n, err |-> FALSE]

\* The size test on whole megabytes (an integer division).
TooLargeWholeMB(size) == maxFileSizeMB > 0 /\ size \div BytesPerMB > maxFileSizeMB

\* A size test that also skips a file exactly at the limit.
TooLargeAtLimit(size) == maxFileSizeMB > 0 /\ size >= maxFileSizeMB * BytesPerMB

\* maxFileSizeMB > 0 && fileSizeMB > maxFileSizeMB, with fileSizeMB the size
\* divided by 1024*1024 (exact in float64 for these sizes).
TooLarge(size) == maxFileSizeMB > 0 /\ size > maxFileSizeMB * BytesPerMB

\* FileData{}: the zero value a failed worker's fileResult carries.
ZeroFileData == [RelPath |-> <<>>, Content |-> [len |-> 0, nulAt |-> -1], Size |-> 0]

\* The FileData a worker builds.
NewFileData(job, f) ==
  [ RelPath |-> job.relPath,
    Content |-> [len |-> f.size, nulAt |-> f.nulAt],
    Size    |-> f.size ]

\* The body of a worker after its cancellation check: what it sends, if
\* anything, and how the file was dealt with.
ProcessFile(job, f) ==
  LET b == isBinaryFile(f)
  IN  IF b.err \/ b.binary
        THEN [send |-> <<>>, how |-> "skipBinary"]
      ELSE IF f.statErr
        THEN [send |-> << [isErr |-> TRUE, data |-> ZeroFileData] >>,
              how |-> "failed"]
      ELSE IF TooLarge(f.size)
        THEN [send |-> <<>>, how |-> "skipSize"]
      ELSE IF f.readErr
        THEN [send |-> << [isErr |-> TRUE, data |-> ZeroFileData] >>,
              how |-> "failed"]
      ELSE [send |-> << [isErr |-> FALSE, data |-> NewFileData(job, f)] >>,
            how |-> "read"]

---------------------------------------------------------------------------
(* the worker pool *)

\* egCtx.Done() is closed: the caller cancelled, or a worker returned an
\* error.
EgCtxDone == ctxDone \/ egErr # "nil"

\* The goroutines eg.Go started that have not returned.
Active == {j \in 1..Len(worker) : worker[j] \in {"check", "run"}}

\* eg.Go with no limit set.
MayStartAlways == TRUE

\* eg.Go may start another goroutine (the semaphore of SetLimit).
MayStart == Cardinality(Active) < PoolLimit

\* The caller's context is cancelled (a signal, a timeout) while Collect runs.
Cancel ==
  /\ pc # "returned"
  /\ ~ctxDone
  /\ ctxDone' = TRUE
  /\ UNCHANGED << validateVars, filterVars, formatVars, inputs, pc, walkVars, poolVars, result, arrived, ret >>

\* eg.Go for the next job: blocks while 16 goroutines are running.
Spawn ==
  /\ pc = "spawn"
  /\ next < Len(fileJobs)
  /\ MayStart
  /\ next' = next + 1
  /\ worker' = [worker EXCEPT ![next + 1] = "check"]
  /\ UNCHANGED << validateVars, filterVars, formatVars, inputs, ctxDone, pc, walkVars, cancelledAtCheck, outcome, found, egErr,
                  resultsChan, chanClosed, result, arrived, ret >>

\* After the loop: the goroutine that waits and closes is started and
\* Collect starts to drain the channel.
StartDrain ==
  /\ pc = "spawn"
  /\ next = Len(fileJobs)
  /\ pc' = "drain"
  /\ UNCHANGED << validateVars, filterVars, formatVars, inputs, ctxDone, walkVars, poolVars, result, arrived, ret >>

\* A worker that goes on to its file whatever its check found.
AfterCheckIgnored(cancelled) == "run"

\* What a worker does once its check found cancelled (TRUE) or not.
AfterCheck(cancelled) == IF cancelled THEN "done" ELSE "run"

\* A worker's select on egCtx.Done(): it returns egCtx.Err(), which the
\* errgroup keeps if it is the first error, or goes on to its file.
WorkerCheck(j) ==
  /\ worker[j] = "check"
  /\ cancelledAtCheck' = [cancelledAtCheck EXCEPT ![j] = IF ctxDone THEN "yes" ELSE "no"]
  /\ worker' = [worker EXCEPT ![j] = AfterCheck(EgCtxDone)]
  /\ egErr' = IF AfterCheck(EgCtxDone) = "done" /\ egErr = "nil"
                THEN "canceled" ELSE egErr
  /\ UNCHANGED << validateVars, filterVars, formatVars, inputs, ctxDone, pc, walkVars, next, outcome, found, resultsChan,
                  chanClosed, result, arrived, ret >>

\* A worker that returns the error of a failed Stat or ReadFile.
WorkerReturnFailure(how) == IF how = "failed" THEN "io" ELSE "nil"

\* What a worker's function returns after dealing with its file: nil, also
\* after a failed Stat or ReadFile.
WorkerReturn(how) == "nil"

\* A worker that appends its record to result itself instead of sending it.
WorkerProcessAppends(j) ==
  /\ worker[j] = "run"
  /\ \E f \in FilesAt(fileJobs[j]) :
       /\ outcome' = [outcome EXCEPT ![j] = ProcessFile(fileJobs[j], f).how]
       /\ found' = [found EXCEPT ![j] = FoundFile(f)]
       /\ result' = IF outcome'[j] = "read"
                      THEN [result EXCEPT !.Files = Append(@, NewFileData(fileJobs[j], f)),
                                          !.TotalSize = @ + f.size]
                      ELSE result
  /\ worker' = [worker EXCEPT ![j] = "done"]
  /\ UNCHANGED << validateVars, filterVars, formatVars, inputs, ctxDone, pc, walkVars, next,
                  cancelledAtCheck, egErr, resultsChan, chanClosed, arrived, ret >>

\* A worker past its check: isBinaryFile, Stat, the size test, ReadFile and
\* the send on resultsChan, which blocks while the buffer is full.
WorkerProcess(j) ==
  /\ worker[j] = "run"
  /\ \E f \in FilesAt(fileJobs[j]) :
       LET o == ProcessFile(fileJobs[j], f)
       IN  /\ Len(resultsChan) + Len(o.send) <= Len(fileJobs)
           /\ ~chanClosed
           /\ resultsChan' = resultsChan \o o.send
           /\ outcome' = [outcome EXCEPT ![j] = o.how]
           /\ found' = [found EXCEPT ![j] = FoundFile(f)]
  /\ egErr' = IF egErr = "nil" THEN WorkerReturn(outcome'[j]) ELSE egErr
  /\ worker' = [worker EXCEPT ![j] = "done"]
  /\ UNCHANGED << validateVars, filterVars, formatVars, inputs, ctxDone, pc, walkVars, next, cancelledAtCheck,
                  chanClosed, result, arrived, ret >>

\* A waiting goroutine that closes the channel without waiting.
WaitAndCloseEarly ==
  /\ pc = "drain"
  /\ ~chanClosed
  /\ chanClosed' = TRUE
  /\ UNCHANGED << validateVars, filterVars, formatVars, inputs, ctxDone, pc, walkVars, next, worker, cancelledAtCheck,
                  outcome, found, egErr, resultsChan, result, arrived, ret >>

\* The waiting goroutine: eg.Wait() returns when every worker has, then
\* close(resultsChan).
WaitAndClose ==
  /\ pc = "drain"
  /\ ~chanClosed
  /\ \A j \in 1..Len(worker) : worker[j] = "done"
  /\ chanClosed' = TRUE
  /\ UNCHANGED << validateVars, filterVars, formatVars, inputs, ctxDone, pc, walkVars, next, worker, cancelledAtCheck,
                  outcome, found, egErr, resultsChan, result, arrived, ret >>

\* An aggregator that appends every record twice.
AggregateTwice(r, res) ==
  IF res.isErr THEN r
  ELSE [r EXCEPT !.Files = Append(Append(r.Files, res.data), res.data),
                 !.TotalSize = r.TotalSize + res.data.Size + res.data.Size]

\* One iteration of the aggregator: what result is after receiving res.
Aggregate(r, res) ==
  IF res.isErr THEN r
  ELSE [r EXCEPT !.Files = Append(r.Files, res.data),
                 !.TotalSize = r.TotalSize + res.data.Size]

Drain ==
  /\ pc = "drain"
  /\ resultsChan # <<>>
  /\ result' = Aggregate(result, Head(resultsChan))
  /\ resultsChan' = Tail(resultsChan)
  /\ UNCHANGED << validateVars, filterVars, formatVars, inputs, ctxDone, pc, walkVars, next, worker, cancelledAtCheck,
                  outcome, found, egErr, chanClosed, ret >>
  /\ arrived' = IF Head(resultsChan).isErr THEN arrived
                ELSE Append(arrived, Head(resultsChan).data.RelPath)

\* sort.Slice(result.Files, less by RelPath): insertion of each record
\* before the first one that is not less than it.
RECURSIVE InsertByRelPath(_, _)
InsertByRelPath(x, s) ==
  IF s = <<>> THEN <<x>>
  ELSE IF StrLess(x.RelPath, Head(s).RelPath) THEN <<x>> \o s
  ELSE <<Head(s)>> \o InsertByRelPath(x, Tail(s))

\* No sort: the records as they arrived.
SortFilesSkipped(s) == s

RECURSIVE SortFiles(_)
SortFiles(s) ==
  IF s = <<>> THEN <<>>
  ELSE InsertByRelPath(Head(s), SortFiles(Tail(s)))

\* A return that hands out what was aggregated together with the error.
ReturnPartial(err, r) ==
  [hasResult |-> TRUE, result |-> [r EXCEPT !.FileCount = Len(r.Files)], err |-> err]

\* A return that leaves FileCount as it was.
ReturnStaleCount(err, r) ==
  IF err # "nil"
    THEN [hasResult |-> FALSE, result |-> EmptyResult, err |-> err]
    ELSE [hasResult |-> TRUE, result |-> [r EXCEPT !.Files = SortFiles(r.Files)],
          err |-> "nil"]

\* What Collect returns once the channel is drained and closed, from the
\* errgroup's error err and the aggregated result r.
Return(err, r) ==
  IF err # "nil"
    THEN [hasResult |-> FALSE, result |-> EmptyResult, err |-> err]
    ELSE LET files == SortFiles(r.Files)
         IN  [hasResult |-> TRUE,
              result |-> [r EXCEPT !.Files = files, !.FileCount = Len(files)],
              err |-> "nil"]

\* The range loop ends on the closed, empty channel; eg.Wait(), the sort
\* and the return.
Finish ==
  /\ pc = "drain"
  /\ resultsChan = <<>>
  /\ chanClosed
  /\ ret' = Return(egErr, result)
  /\ result' = IF ret'.hasResult THEN ret'.result ELSE result
  /\ pc' = "returned"
  /\ UNCHANGED << validateVars, filterVars, formatVars, inputs, ctxDone, walkVars, poolVars, arrived >>

Next ==
  \/ WalkStep
  \/ Cancel
  \/ Spawn
  \/ StartDrain
  \/ \E j \in 1..Len(worker) : WorkerCheck(j)
  \/ \E j \in 1..Len(worker) : WorkerProcess(j)
  \/ WaitAndClose
  \/ Drain
  \/ Finish

Spec == Init /\ [][Next]_vars


---------------------------------------------------------------------------
(* the walk alone, which filepath.WalkDir runs to its end *)

SpecWalk == Init /\ [][WalkStep]_vars /\ WF_vars(WalkStep)

\* The walk alone from every filter and depth limit.
SpecWalkAll == InitWalkAll /\ [][WalkStep]_vars

---------------------------------------------------------------------------
(* the pool on more jobs than its limit: Collect called on the wide
   directory with a context that is already cancelled, so that every
   worker returns at its check *)

InitPool ==
  /\ tree = "wide"
  /\ rootErr = "none"
  /\ filter = "default"
  /\ maxDepth = 0
  /\ maxFileSizeMB = 0
  /\ ctxDone = TRUE
  /\ pc = "walk"
  /\ walkStack = << << [path |-> RootPath, node |-> RootPath] >> >>
  /\ visitedDirs = {}
  /\ fileJobs = <<>>
  /\ listed = <<>>
  /\ next = 0
  /\ worker = <<>>
  /\ cancelledAtCheck = <<>>
  /\ outcome = <<>>
  /\ found = <<>>
  /\ egErr = "nil"
  /\ resultsChan = <<>>
  /\ chanClosed = FALSE
  /\ result = EmptyResult
  /\ arrived = <<>>
  /\ ret = NoReturn
  /\ FilterIdle
  /\ FormatIdle
  /\ ValidateIdle

NextPool ==
  \/ WalkStep
  \/ Spawn
  \/ StartDrain
  \/ \E j \in 1..Len(worker) : WorkerCheck(j)
  \/ WaitAndClose
  \/ Finish

SpecPool == InitPool /\ [][NextPool]_vars

---------------------------------------------------------------------------
(* Collect under a scheduler that runs whatever can run *)

\* A step of Collect or of one of its goroutines (the caller's cancellation
\* is not one).
Progress ==
  \/ WalkStep
  \/ Spawn
  \/ StartDrain
  \/ \E j \in 1..Len(worker) : WorkerCheck(j)
  \/ \E j \in 1..Len(worker) : WorkerProcess(j)
  \/ WaitAndClose
  \/ Drain
  \/ Finish

\* Collect with the default filter and no depth limit on the small trees,
\* with any interleaving and cancellation at any moment, and on the wide
\* directory: no goroutine that can take a step is left waiting for ever.
SpecLive ==
  /\ InitWith({"default"}, {0}) \/ InitPool
  /\ [][Next]_vars
  /\ WF_vars(Progress)

---------------------------------------------------------------------------
(* Collect not called: the state of its variables while the filter or the
   renderer is exercised on its own *)

CollectIdle ==
  /\ tree = "depth"
  /\ rootErr = "none"
  /\ filter = "default"
  /\ maxDepth = 0
  /\ maxFileSizeMB = 0
  /\ ctxDone = FALSE
  /\ pc = "idle"
  /\ walkStack = <<>>
  /\ visitedDirs = {}
  /\ fileJobs = <<>>
  /\ listed = <<>>
  /\ next = 0
  /\ worker = <<>>
  /\ cancelledAtCheck = <<>>
  /\ outcome = <<>>
  /\ found = <<>>
  /\ egErr = "nil"
  /\ resultsChan = <<>>
  /\ chanClosed = FALSE
  /\ result = EmptyResult
  /\ arrived = <<>>
  /\ ret = NoReturn

---------------------------------------------------------------------------
(* Filter.LoadGitignore *)

\* The white space strings.TrimSpace removes (ASCII: \t \n \v \f \r and ' ').
SpaceBytes == {9, 10, 11, 12, 13, 32}

\* strings.TrimSpace
TrimSpace(s) ==
  LET keep == {i \in 1..Len(s) : s[i] \notin SpaceBytes}
  IN  IF keep = {} THEN <<>>
      ELSE SubSeq(s, CHOOSE i \in keep : \A k \in keep : i <= k,
                     CHOOSE i \in keep : \A k \in keep : k <= i)

\* A line test that lets negation lines through to the glob compiler.
SkipLineKeepsNegation(line) == line = <<>> \/ HasPrefix(line, <<35>>)

\* The lines LoadGitignore passes over (line is trimmed): blank lines,
\* comments and negations.
SkipLine(line) ==
  \/ line = <<>>
  \/ HasPrefix(line, <<35>>)
  \/ HasPrefix(line, <<33>>)

\* The glob pattern LoadGitignore builds from a line it keeps.
GlobPattern(line) ==
  LET pattern == IF HasSuffix(line, <<47>>) THEN line \o <<42,42>> ELSE line
  IN  IF HasPrefix(pattern, <<47>>) THEN Tail(pattern) ELSE <<42,42,47>> \o pattern

\* glob.Compile(pattern, '/') for a pattern whose only wildcards are a
\* leading "**/" and a trailing "**".
GlobCompile(pattern) ==
  LET pre  == HasPrefix(pattern, <<42,42,47>>)
      rest == IF pre THEN SubSeq(pattern, 4, Len(pattern)) ELSE pattern
      post == HasSuffix(rest, <<42,42>>)
  IN  [pre |-> pre, post |-> post,
       lit |-> IF post THEN SubSeq(rest, 1, Len(rest) - 2) ELSE rest]

\* The scanner loop: the globs after the given lines.
RECURSIVE ScanLines(_, _)
ScanLines(globs, lines) ==
  IF lines = <<>> THEN globs
  ELSE IF SkipLine(TrimSpace(Head(lines))) THEN ScanLines(globs, Tail(lines))
  ELSE ScanLines(Append(globs, GlobCompile(GlobPattern(TrimSpace(Head(lines))))),
                 Tail(lines))

\* Filter.LoadGitignore on the ignore file found at the repository root:
\* the filter it leaves and the error it returns.  file.lines are the lines
\* the scanner delivered, file.scanErr says it then failed.
LoadGitignore(f, file) ==
  IF ~f.respectGitignore THEN [f |-> f, err |-> "nil"]
  ELSE IF file.openErr THEN [f |-> f, err |-> "nil"]
  ELSE [f |-> [f EXCEPT !.gitignoreGlobs = ScanLines(f.gitignoreGlobs, file.lines)],
        err |-> IF file.scanErr THEN "scan" ELSE "nil"]

---------------------------------------------------------------------------
(* a filter's life: NewFilter, the ignore-file load, then ShouldInclude *)

\* The ShouldInclude calls followed in one run.
MaxCalls == 2

\* A pattern regexp.Compile rejects.
BadPattern == [kind |-> "sub", alts |-> {}, ok |-> FALSE]

\* The arguments NewFilter is called with.
FilterArgs ==
  [ exts      : { {}, { <<103,111>>, <<46,109,100>>, <<46,116,120,116>> } },
    excludes  : { <<>>, << Suffix({ <<46,109,100>> }), BadPattern, Comp({ <<112,107,103>> }) >> },
    gitignore : BOOLEAN,
    tests     : BOOLEAN ]

IgnoreFile(lines) == [openErr |-> FALSE, lines |-> lines, scanErr |-> FALSE]

\* The ignore files LoadGitignore meets.
IgnoreFiles ==
  { NoIgnoreFile,
    IgnoreFile(<<>>),
    IgnoreFile(<< <<35,32,98,117,105,108,100,32,111,117,116,112,117,116>>, <<>>, <<108,111,103,115,47>>, <<33,109,97,105,110,46,103,111>> >>),
    IgnoreFile(<< <<32,32,32>>, <<32,32,33,110,111,116,101,115>>, <<47,68,111,99,107,101,114,102,105,108,101>>, <<9>> \o <<35,120>> >>),
    IgnoreFile(<< <<33,68,111,99,107,101,114,102,105,108,101>>, <<32,97,112,112,46,116,120,116,32>> >>),
    [IgnoreFile(<< <<47,110,111,116,101,115>> >>) EXCEPT !.scanErr = TRUE] }

\* The paths ShouldInclude is asked about.
AskedPaths ==
  { <<109,97,105,110,46,103,111>>, <<112,107,103,47,102,111,111,95,116,101,115,116,46,103,111>>, <<68,111,99,107,101,114,102,105,108,101>>, <<110,111,116,101,115>>, <<98,105,110,47,77,97,107,101,102,105,108,101>>,
    <<98,117,105,108,100,47,109,97,105,110,46,103,111>>, <<115,114,99,47,108,111,103,115,47,97,112,112,46,116,120,116>>, <<116,101,115,116,115,47,117,116,105,108,46,103,111>> }

InitFilter ==
  /\ CollectIdle
  /\ ValidateIdle
  /\ FormatIdle
  /\ flArgs \in FilterArgs
  /\ fl = NewFilter(flArgs.exts, flArgs.excludes, flArgs.gitignore, flArgs.tests)
  /\ flPc = "new"
  /\ flFile = NoIgnoreFile
  /\ flErr = "unset"
  /\ flCalls = <<>>

\* main: filter.LoadGitignore(repoRoot)
LoadIgnoreFile ==
  /\ flPc = "new"
  /\ \E file \in IgnoreFiles :
       /\ flFile' = file
       /\ fl' = LoadGitignore(fl, file).f
       /\ flErr' = LoadGitignore(fl, file).err
  /\ flPc' = "ready"
  /\ UNCHANGED << validateVars, collectVars, formatVars, flArgs, flCalls >>

\* main outside a git repository or with --no-gitignore: no load.
SkipLoad ==
  /\ flPc = "new"
  /\ flPc' = "ready"
  /\ UNCHANGED << validateVars, collectVars, formatVars, flArgs, fl, flFile, flErr, flCalls >>

\* A ShouldInclude that adds the extension it saw to the allow-set.
ReceiverLearnsExt(f, p) == [f EXCEPT !.allowedExts = @ \cup {Ext(p)}]

\* The receiver after f.ShouldInclude(p): the method assigns to none of its
\* fields.
Receiver(f, p) == f

\* A call of ShouldInclude on the loaded filter.
Ask ==
  /\ flPc = "ready"
  /\ Len(flCalls) < MaxCalls
  /\ \E p \in AskedPaths :
       /\ flCalls' = Append(flCalls, [path |-> p, answer |-> ShouldInclude(fl, p)])
       /\ fl' = Receiver(fl, p)
  /\ UNCHANGED << validateVars, collectVars, formatVars, flArgs, flPc, flFile, flErr >>

NextFilter ==
  \/ LoadIgnoreFile
  \/ SkipLoad
  \/ Ask

SpecFilter == InitFilter /\ [][NextFilter]_vars

\* The paths of a Terraform repository ShouldInclude is asked about.
TerraformPaths ==
  { <<109,97,105,110,46,116,102>>, <<101,110,118,47,112,114,111,100,46,116,102,118,97,114,115>>, <<116,101,114,114,97,103,114,117,110,116,46,104,99,108>>, <<46,116,101,114,114,97,102,111,114,109,47,109,111,100,117,108,101,115,47,109,46,103,111>>,
    <<46,116,101,114,114,97,102,111,114,109,47,112,114,111,118,105,100,101,114,115,47,112,46,116,102>>, <<116,101,114,114,97,102,111,114,109,46,116,102,115,116,97,116,101>>, <<116,101,114,114,97,102,111,114,109,46,116,102,115,116,97,116,101,46,98,97,99,107,117,112>>,
    <<109,97,105,110,46,103,111>> }

\* NewFilter as main calls it when neither --ext nor --exclude is given.
InitDefaults ==
  /\ CollectIdle
  /\ ValidateIdle
  /\ FormatIdle
  /\ flArgs \in [exts : {{}}, excludes : {<<>>}, gitignore : BOOLEAN, tests : BOOLEAN]
  /\ fl = NewFilter(flArgs.exts, flArgs.excludes, flArgs.gitignore, flArgs.tests)
  /\ flPc = "new"
  /\ flFile = NoIgnoreFile
  /\ flErr = "unset"
  /\ flCalls = <<>>

\* A call of ShouldInclude on a path of a Terraform repository.
AskTerraform ==
  /\ flPc = "ready"
  /\ Len(flCalls) < MaxCalls
  /\ \E p \in TerraformPaths :
       /\ flCalls' = Append(flCalls, [path |-> p, answer |-> ShouldInclude(fl, p)])
       /\ fl' = Receiver(fl, p)
  /\ UNCHANGED << validateVars, collectVars, formatVars, flArgs, flPc, flFile, flErr >>

NextDefaults ==
  \/ LoadIgnoreFile
  \/ SkipLoad
  \/ AskTerraform

SpecDefaults == InitDefaults /\ [][NextDefaults]_vars

---------------------------------------------------------------------------
(* FormatAsMarkdown *)

Newline == <<10>>

\* "\n---\n\n"
Separator == Newline \o <<45,45,45>> \o Newline \o Newline

\* A rendering that writes a newline after every content.
RenderFileAlwaysNewline(file) ==
  <<70,105,108,101,58,32,46,47>> \o file.RelPath \o Newline \o Newline
  \o <<96,96,96>> \o file.Language \o Newline
  \o file.Content
  \o Newline
  \o <<96,96,96>> \o Newline

\* One iteration's writes before the separator: the header, the opening
\* fence with the language, the content, a newline when the content does not
\* end with one, and the closing fence.
RenderFile(file) ==
  <<70,105,108,101,58,32,46,47>> \o file.RelPath \o Newline \o Newline
  \o <<96,96,96>> \o file.Language \o Newline
  \o file.Content
  \o (IF ~HasSuffix(file.Content, Newline) THEN Newline ELSE <<>>)
  \o <<96,96,96>> \o Newline

\* A separator after every record.
NeedsSeparatorAlways(i, n) == TRUE

\* i < len(result.Files)-1, for the 0-based loop index i.
NeedsSeparator(i, n) == i < n - 1

\* The records rendered in one call.
MaxRecords == 3

TextFile(relPath, language, content) ==
  [RelPath |-> relPath, Content |-> content, Size |-> Len(content),
   Language |-> language]

\* Records as Collect builds them: a source file, a file without a final
\* newline, a document with a horizontal rule, one that starts with one and
\* a file that ends with an empty line.
FormatRecords ==
  { TextFile(<<97,46,103,111>>, <<103,111>>, <<120>> \o Newline),
    TextFile(<<98,46,116,120,116>>, <<116,101,120,116>>, <<121>>),
    TextFile(<<99,46,109,100>>, <<109,97,114,107,100,111,119,110>>, <<97>> \o Separator \o <<98>> \o Newline),
    TextFile(<<100,46,109,100>>, <<109,97,114,107,100,111,119,110>>, <<45,45,45>> \o Newline \o Newline \o <<122>> \o Newline),
    TextFile(<<101,46,116,120,116>>, <<116,101,120,116>>, <<119>> \o Newline \o Newline) }

InitFormat ==
  /\ CollectIdle
  /\ ValidateIdle
  /\ FilterIdle
  /\ fmIn \in UNION { [1..n -> FormatRecords] : n \in 0..MaxRecords }
  /\ fmIdx = 0
  /\ fmOut = <<>>
  /\ fmSeps = 0
  /\ fmPc = "loop"

\* One iteration of the range loop.
FormatFile ==
  /\ fmPc = "loop"
  /\ fmIdx < Len(fmIn)
  /\ fmOut' = fmOut \o RenderFile(fmIn[fmIdx + 1])
                \o (IF NeedsSeparator(fmIdx, Len(fmIn)) THEN Separator ELSE <<>>)
  /\ fmSeps' = fmSeps + (IF NeedsSeparator(fmIdx, Len(fmIn)) THEN 1 ELSE 0)
  /\ fmIdx' = fmIdx + 1
  /\ UNCHANGED << validateVars, collectVars, filterVars, fmIn, fmPc >>

\* return sb.String()
FormatReturn ==
  /\ fmPc = "loop"
  /\ fmIdx = Len(fmIn)
  /\ fmPc' = "done"
  /\ UNCHANGED << validateVars, collectVars, filterVars, fmIn, fmIdx, fmOut, fmSeps >>

NextFormat ==
  \/ FormatFile
  \/ FormatReturn

SpecFormat == InitFormat /\ [][NextFormat]_vars

---------------------------------------------------------------------------
(* analyzer.ValidatePath and the start of runBcopy *)

\* The elements of p between separators ("" between two adjacent ones).
RECURSIVE Elements(_)
Elements(p) ==
  LET seps == {i \in 1..Len(p) : p[i] = PathSeparator}
  IN  IF seps = {} THEN <<p>>
      ELSE LET k == CHOOSE i \in seps : \A j \in seps : i <= j
           IN  <<SubSeq(p, 1, k - 1)>> \o Elements(SubSeq(p, k + 1, Len(p)))

\* The element stack of filepath.Clean: "" and "." are dropped, ".." removes
\* the element before it, stays at the root of a rooted path, and is kept at
\* the start of a relative one.
RECURSIVE Resolve(_, _, _)
Resolve(elems, rooted, stack) ==
  IF elems = <<>> THEN stack
  ELSE LET e == Head(elems)
           n == Len(stack)
       IN  IF e = <<>> \/ e = <<46>> THEN Resolve(Tail(elems), rooted, stack)
           ELSE IF e = <<46,46>>
             THEN IF n > 0 /\ stack[n] # <<46,46>>
                    THEN Resolve(Tail(elems), rooted, SubSeq(stack, 1, n - 1))
                  ELSE IF rooted THEN Resolve(Tail(elems), rooted, stack)
                  ELSE Resolve(Tail(elems), rooted, Append(stack, e))
           ELSE Resolve(Tail(elems), rooted, Append(stack, e))

RECURSIVE JoinElements(_)
JoinElements(stack) ==
  IF stack = <<>> THEN <<>>
  ELSE IF Len(stack) = 1 THEN stack[1]
  ELSE stack[1] \o <<47>> \o JoinElements(Tail(stack))

\* filepath.Clean
Clean(p) ==
  LET rooted == p # <<>> /\ p[1] = PathSeparator
      out == (IF rooted THEN <<47>> ELSE <<>>)
               \o JoinElements(Resolve(Elements(p), rooted, <<>>))
  IN  IF out = <<>> THEN <<46>> ELSE out

\* filepath.Dir: all but the last element of p, cleaned.
FilepathDir(p) == Clean(SubSeq(p, 1, LastIndexByte(p, PathSeparator)))

\* filepath.Abs: [path, ok]; a relative path is joined to the working
\* directory, and Getwd's failure (cwd = "") is Abs's failure.
Abs(path, cwd) ==
  IF path # <<>> /\ path[1] = PathSeparator THEN [path |-> Clean(path), ok |-> TRUE]
  ELSE IF cwd = <<>> THEN [path |-> <<>>, ok |-> FALSE]
  ELSE [path |-> Clean(cwd \o <<47>> \o path), ok |-> TRUE]

dangerousDirs ==
  << <<47,117,115,114>>, <<47,101,116,99>>, <<47,118,97,114>>, <<47,98,105,110>>, <<47,115,98,105,110>>, <<47,98,111,111,116>>, <<47,115,121,115>>, <<47,112,114,111,99>>,
     <<47,100,101,118>>, <<47,83,121,115,116,101,109>>, <<47,76,105,98,114,97,114,121>>, <<47,65,112,112,108,105,99,97,116,105,111,110,115>>, <<47,86,111,108,117,109,101,115>>,
     <<47,112,114,105,118,97,116,101>>, <<47,111,112,116>>, <<47,114,111,111,116>>, <<47,116,109,112>>, <<47,87,105,110,100,111,119,115>>, <<47,80,114,111,103,114,97,109,32,70,105,108,101,115>>,
     <<47,80,114,111,103,114,97,109,32,70,105,108,101,115,32,40,120,56,54,41>> >>

\* A breadth test that knows only the parent of the home directory.
TooBroadHomeOnly(cleanPath, homeDir) ==
  /\ StrCount(cleanPath, PathSeparator) <= 2
  /\ cleanPath # <<47>>
  /\ homeDir # <<>>
  /\ FilepathDir(cleanPath) = FilepathDir(homeDir)

\* The last test of ValidatePath: at most two separators and a parent that
\* is the root or the parent of the home directory.
TooBroad(cleanPath, homeDir) ==
  /\ StrCount(cleanPath, PathSeparator) <= 2
  /\ cleanPath # <<47>>
  /\ \/ FilepathDir(cleanPath) = <<47>>
     \/ homeDir # <<>> /\ FilepathDir(cleanPath) = FilepathDir(homeDir)

\* analyzer.ValidatePath: "nil" or the kind of the error returned.  homeDir
\* is "" when os.UserHomeDir fails.
ValidatePath(path, cwd, homeDir) ==
  LET abs == Abs(path, cwd)
      cleanPath == Clean(abs.path)
  IN  IF ~abs.ok THEN "resolve"
      ELSE IF cleanPath = <<47>> THEN "root"
      ELSE IF homeDir # <<>> /\ cleanPath = Clean(homeDir) THEN "home"
      ELSE IF \E i \in 1..Len(dangerousDirs) : cleanPath = Clean(dangerousDirs[i])
        THEN "system"
      ELSE IF TooBroad(cleanPath, homeDir) THEN "broad"
      ELSE "nil"

\* No path argument on the command line.
NoArg == <<0>>

PathArgs ==
  { NoArg, <<46>>, <<47>>, <<47,47>>, <<47,117,115,114>>, <<47,101,116,99,47>>, <<47,118,97,114,47,46,46>>, <<47,117,115,114,47,108,111,99,97,108>>,
    <<47,115,114,118>>, <<47,115,114,118,47,97,112,112>>, <<47,115,114,118,47,97,112,112,47,46,46>>, <<47,104,111,109,101,47,117>>, <<47,104,111,109,101,47,117,47>>, <<47,104,111,109,101,47,117,47,112,114,111,106>>,
    <<47,104,111,109,101,47,117,47,112,114,111,106,47,46,46>>, <<47,104,111,109,101,47,118>>, <<47,104,111,109,101,47,118,47,119>>, <<47,104,111,109,101>>, <<112,114,111,106>>, <<46,46>>,
    <<46,46,47,46,46>>, <<47,80,114,111,103,114,97,109,32,70,105,108,101,115,32,40,120,56,54,41>>, <<47,116,109,112,47,46,47>> }

WorkingDirs == { <<>>, <<47,104,111,109,101,47,117>>, <<47,104,111,109,101,47,117,47,112,114,111,106>>, <<47,115,114,118>>, <<47>> }

HomeDirs == { <<>>, <<47,104,111,109,101,47,117>>, <<47,104,111,109,101,47,117,47>> }

InitValidate ==
  /\ CollectIdle
  /\ FilterIdle
  /\ FormatIdle
  /\ vpArg \in PathArgs
  /\ vpCwd \in WorkingDirs
  /\ vpHome \in HomeDirs
  /\ vpPath = <<>>
  /\ vpErr = "unset"
  /\ cliPc = "args"

\* runBcopy up to the call of ValidatePath: the path is the argument or ".",
\* and "." becomes the working directory; the run ends when Getwd fails.
CliPath ==
  /\ cliPc = "args"
  /\ LET path == IF vpArg = NoArg THEN <<46>> ELSE vpArg
     IN  IF path = <<46>>
           THEN IF vpCwd = <<>>
                  THEN cliPc' = "exit" /\ vpPath' = path
                  ELSE cliPc' = "validate" /\ vpPath' = vpCwd
           ELSE cliPc' = "validate" /\ vpPath' = path
  /\ UNCHANGED << vpArg, vpCwd, vpHome, vpErr, collectVars, filterVars, formatVars >>

\* The call of ValidatePath and the os.Exit(1) on its error.
CliValidate ==
  /\ cliPc = "validate"
  /\ vpErr' = ValidatePath(vpPath, vpCwd, vpHome)
  /\ cliPc' = IF vpErr' = "nil" THEN "setup" ELSE "exit"
  /\ UNCHANGED << vpArg, vpCwd, vpHome, vpPath, collectVars, filterVars, formatVars >>

\* Between the validation and Collect the run may end (the answer at the
\* prompt for a directory outside a git repository).
CliAbort ==
  /\ cliPc = "setup"
  /\ cliPc' = "exit"
  /\ UNCHANGED << vpArg, vpCwd, vpHome, vpPath, vpErr, collectVars, filterVars, formatVars >>

\* The call collector.Collect(ctx, path, ...).
CliCollect ==
  /\ cliPc = "setup"
  /\ cliPc' = "collect"
  /\ UNCHANGED << vpArg, vpCwd, vpHome, vpPath, vpErr, collectVars, filterVars, formatVars >>

NextValidate == CliPath \/ CliValidate \/ CliAbort \/ CliCollect

SpecValidate == InitValidate /\ [][NextValidate]_vars

---------------------------------------------------------------------------
(* properties *)

Returned == pc = "returned"

Jobs == 1..Len(fileJobs)

\* The RelPaths of the records in a sequence of FileData.
RelPathsOf(files) == {files[i].RelPath : i \in 1..Len(files)}

\* A sequence of RelPaths is strictly ascending byte-wise.
Ascending(paths) == \A i \in 1..(Len(paths) - 1) : StrLess(paths[i], paths[i + 1])

\* C1: whenever Collect returns a result, result.Files is strictly ascending
\* by RelPath, whatever the order of the job list and the order in which the
\* workers' records arrived.
C1_ResultSorted ==
  (Returned /\ ret.hasResult) =>
    Ascending([i \in 1..Len(ret.result.Files) |-> ret.result.Files[i].RelPath])

\* C1's case: a result of three records returned from a job list that was
\* not in ascending order and from records that arrived out of order.
C1_Witness ==
  /\ Returned /\ ret.hasResult
  /\ Len(ret.result.Files) = 3
  /\ ~Ascending([j \in Jobs |-> fileJobs[j].relPath])
  /\ ~Ascending(arrived)
  /\ StrLess(arrived[3], arrived[1])

\* C2 as claimed: if the context is cancelled between the call of Collect and
\* its return, Collect returns the cancellation error and no result.
C2_CancelledNeverReturnsResult ==
  (Returned /\ ctxDone) => (~ret.hasResult /\ ret.err = "canceled")

\* C3 as claimed: if the root cannot be stat'ed or listed, Collect fails with
\* an error and returns no result.
C3_RootErrorFails ==
  (Returned /\ rootErr # "none") => (~ret.hasResult /\ ret.err # "nil")

\* C4 as claimed: with maxDepth = 1 no file inside a subdirectory of the root
\* becomes a job.
C4_DepthOneOnlyRootFiles ==
  maxDepth = 1 =>
    \A j \in Jobs : StrCount(fileJobs[j].relPath, PathSeparator) = 0

\* C5: every record of a returned result has no NUL byte in its first 8 KiB
\* and a size within a positive maxFileSizeMB, and no job skipped as binary
\* or oversized has a record in the result.
C5_NoBinaryNoOversized ==
  (Returned /\ ret.hasResult) =>
    /\ \A i \in 1..Len(ret.result.Files) :
         LET rec == ret.result.Files[i]
         IN  /\ ~(rec.Content.nulAt >= 0 /\ rec.Content.nulAt < BinaryProbeLen)
             /\ (maxFileSizeMB > 0 => rec.Size <= maxFileSizeMB * BytesPerMB)
    /\ \A j \in Jobs :
         outcome[j] \in {"skipBinary", "skipSize"} =>
           fileJobs[j].relPath \notin RelPathsOf(ret.result.Files)

\* C5's case: under a positive limit a result holding a file exactly at the
\* limit, beside a job skipped as binary and a job skipped as oversized.
C5_Witness ==
  /\ Returned /\ ret.hasResult
  /\ maxFileSizeMB > 0
  /\ \E i \in 1..Len(ret.result.Files) :
       ret.result.Files[i].Size = maxFileSizeMB * BytesPerMB
  /\ \E j \in Jobs : outcome[j] = "skipBinary"
  /\ \E j \in Jobs : outcome[j] = "skipSize"

\* C6: the walk ends, symbolic link cycles included, and no real directory
\* has its entries listed twice.
C6_WalkTerminatesOncePerDir ==
  /\ <>(pc # "walk")
  /\ [](\A i, k \in 1..Len(listed) : i # k => listed[i] # listed[k])

\* C6's case: the walk is over on the tree with the links, the link to the
\* root (a cycle) was resolved and recorded, and directories were listed.
C6_Witness ==
  /\ pc # "walk"
  /\ tree = "links"
  /\ RootPath \in visitedDirs
  /\ Len(listed) >= 2

\* C7: without cancellation Collect returns a result and no error whatever
\* Stat and ReadFile do; every job was dealt with, a job whose Stat or
\* ReadFile failed has no record and a job that was read has one.
C7_SoftFailures ==
  (Returned /\ ~ctxDone) =>
    /\ ret.hasResult /\ ret.err = "nil"
    /\ \A j \in Jobs :
         /\ outcome[j] # "pending"
         /\ outcome[j] = "failed" =>
              fileJobs[j].relPath \notin RelPathsOf(ret.result.Files)
         /\ outcome[j] = "read" =>
              fileJobs[j].relPath \in RelPathsOf(ret.result.Files)

\* C7's case: an uncancelled run returned, one job's Stat or ReadFile failed
\* and another job was read.
C7_Witness ==
  /\ Returned /\ ~ctxDone
  /\ \E j, k \in Jobs : outcome[j] = "failed" /\ outcome[k] = "read"

\* C8: when the errgroup's error is not nil Collect returns (nil, err), the
\* drained records discarded; it never returns a result and an error.
C8_GoverningError ==
  Returned =>
    /\ egErr # "nil" => (~ret.hasResult /\ ret.err = egErr /\ ret.result = EmptyResult)
    /\ ~(ret.hasResult /\ ret.err # "nil")

\* C8's case: Collect returned the errgroup's error after records had been
\* drained into result.
C8_Witness ==
  /\ Returned
  /\ egErr # "nil"
  /\ Len(result.Files) > 0

\* C9: a worker whose start-of-job check runs after the cancellation returns
\* there: it never opens, stats or reads its file and sends nothing.
C9_NoWorkAfterCancel ==
  \A j \in Jobs :
    (j <= Len(cancelledAtCheck) /\ cancelledAtCheck[j] = "yes") =>
      (worker[j] = "done" /\ outcome[j] = "pending")

\* C9's case: one worker's check ran after the cancellation, while another,
\* already past its check, read its file and its record was aggregated.
C9_Witness ==
  \E j, k \in Jobs :
    /\ j <= Len(cancelledAtCheck) /\ cancelledAtCheck[j] = "yes"
    /\ cancelledAtCheck[k] = "no" /\ outcome[k] = "read"
    /\ fileJobs[k].relPath \in RelPathsOf(result.Files)

\* C10: at most 16 worker goroutines have started and not returned.
C10_AtMostSixteenWorkers == Cardinality(Active) <= PoolLimit

\* C10's case: 16 workers are running and eg.Go is held back on the next
\* job.
C10_Witness ==
  /\ pc = "spawn"
  /\ Cardinality(Active) = PoolLimit
  /\ next < Len(fileJobs)

\* No two elements of a sequence are equal.
Distinct(s) == \A i, k \in 1..Len(s) : i # k => s[i] # s[k]

\* C11: a returned result never holds two records with the same RelPath; the
\* walk emits each relative path at most once and no job's record is
\* aggregated twice.
C11_NoDuplicateRelPath ==
  /\ Distinct([j \in Jobs |-> fileJobs[j].relPath])
  /\ Distinct(arrived)
  /\ (Returned /\ ret.hasResult) =>
       Distinct([i \in 1..Len(ret.result.Files) |-> ret.result.Files[i].RelPath])

\* C11's case: a result of two records returned from a list of three jobs,
\* one of them skipped as binary.
C11_Witness ==
  /\ Returned /\ ret.hasResult
  /\ Len(fileJobs) = 3
  /\ Len(ret.result.Files) = 2
  /\ \E j \in Jobs : outcome[j] = "skipBinary"

\* The sum of the Size fields of a sequence of records.
RECURSIVE SumSizes(_)
SumSizes(files) ==
  IF files = <<>> THEN 0 ELSE Head(files).Size + SumSizes(Tail(files))

\* C12: in a returned result FileCount is the number of records in Files and
\* TotalSize the sum of their sizes.
C12_CountAndTotal ==
  (Returned /\ ret.hasResult) =>
    /\ ret.result.FileCount = Len(ret.result.Files)
    /\ ret.result.TotalSize = SumSizes(ret.result.Files)

\* C12's case: a returned result of two records or more beside a job whose
\* Stat or ReadFile failed.
C12_Witness ==
  /\ Returned /\ ret.hasResult
  /\ Len(ret.result.Files) >= 2
  /\ ret.result.TotalSize > 0
  /\ \E j \in Jobs : outcome[j] = "failed"

\* C13: every step that changes result is a step of Collect's own goroutine
\* in its drain loop or its return, never a step of a worker, and the sort
\* and the count are written when no worker is running.
C13_SingleWriter ==
  [][ result' # result =>
        /\ pc = "drain"
        /\ worker' = worker
        /\ (pc' = "returned" => Active = {}) ]_vars

\* C13's case: records have been aggregated while a worker is still running.
C13_Witness ==
  /\ pc = "drain"
  /\ Len(result.Files) > 0
  /\ \E j \in Jobs : worker[j] = "run"

---------------------------------------------------------------------------
(* properties of the filter *)

CallIds == 1..Len(flCalls)

\* Stage 1: some compiled exclusion pattern matches the path.
ExcludedByPattern(path) ==
  \E i \in 1..Len(fl.excludePatterns) : MatchString(fl.excludePatterns[i], path)

\* Stage 2: ignore rules are respected and some glob matches the path.
IgnoredByGlob(path) ==
  /\ fl.respectGitignore
  /\ \E i \in 1..Len(fl.gitignoreGlobs) : GlobMatch(fl.gitignoreGlobs[i], path)

\* Stage 3: the extension rules alone.
ByExtension(path) ==
  IF Ext(path) = <<>>
    THEN Base(path) \in { <<77,97,107,101,102,105,108,101>>, <<68,111,99,107,101,114,102,105,108,101>>, <<82,97,107,101,102,105,108,101>>, <<71,101,109,102,105,108,101>>,
                          <<80,114,111,99,102,105,108,101>>, <<86,97,103,114,97,110,116,102,105,108,101>> }
    ELSE Ext(path) \in fl.allowedExts

\* C14: ShouldInclude's stages apply in order, the first match deciding: an
\* exclusion pattern excludes whatever the extension or the file name, an
\* active ignore glob excludes before any extension test, and only a path
\* that passes both is decided by the extension rules.
C14_StagesInOrder ==
  \A c \in CallIds :
    /\ ExcludedByPattern(ToSlash(flCalls[c].path)) => ~flCalls[c].answer
    /\ IgnoredByGlob(ToSlash(flCalls[c].path)) => ~flCalls[c].answer
    /\ (~ExcludedByPattern(ToSlash(flCalls[c].path))
        /\ ~IgnoredByGlob(ToSlash(flCalls[c].path)))
         => (flCalls[c].answer = ByExtension(ToSlash(flCalls[c].path)))

\* C14's case: a path with an allowed extension refused for an exclusion
\* pattern, then one refused for an ignore glob alone.
C14_Witness ==
  /\ Len(flCalls) = 2
  /\ ExcludedByPattern(flCalls[1].path) /\ ByExtension(flCalls[1].path)
  /\ ~flCalls[1].answer
  /\ ~ExcludedByPattern(flCalls[2].path) /\ IgnoredByGlob(flCalls[2].path)
  /\ ByExtension(flCalls[2].path)
  /\ ~flCalls[2].answer

\* C15: a path without extension that no exclusion pattern and no ignore
\* glob matches is included exactly when its file name is one of Makefile,
\* Dockerfile, Rakefile, Gemfile, Procfile and Vagrantfile, whatever the
\* allow-set.
C15_ExtensionlessNames ==
  \A c \in CallIds :
    ( /\ Ext(flCalls[c].path) = <<>>
      /\ ~ExcludedByPattern(flCalls[c].path)
      /\ ~IgnoredByGlob(flCalls[c].path) )
    => ( /\ flCalls[c].answer =
              (Base(flCalls[c].path) \in
                 { <<77,97,107,101,102,105,108,101>>, <<68,111,99,107,101,114,102,105,108,101>>, <<82,97,107,101,102,105,108,101>>, <<71,101,109,102,105,108,101>>,
                   <<80,114,111,99,102,105,108,101>>, <<86,97,103,114,97,110,116,102,105,108,101>> })
         /\ flCalls[c].path = <<68,111,99,107,101,114,102,105,108,101>> => flCalls[c].answer
         /\ flCalls[c].path = <<110,111,116,101,115>> => ~flCalls[c].answer )

\* C15's case: under a caller's allow-set Dockerfile was included and notes
\* refused.
C15_Witness ==
  /\ flArgs.exts # {}
  /\ Len(flCalls) = 2
  /\ flCalls[1] = [path |-> <<68,111,99,107,101,114,102,105,108,101>>, answer |-> TRUE]
  /\ flCalls[2] = [path |-> <<110,111,116,101,115>>, answer |-> FALSE]

C17_BadPatternDropped ==
  flPc \in {"new", "ready"} =>
    /\ \A i \in 1..Len(alwaysExclude) : fl.excludePatterns[i] = alwaysExclude[i]
    /\ \A k \in 1..Len(flArgs.excludes) :
         flArgs.excludes[k].ok <=>
           \E i \in 1..Len(fl.excludePatterns) : fl.excludePatterns[i] = flArgs.excludes[k]
    /\ Len(fl.excludePatterns) =
         Len(alwaysExclude) + (IF flArgs.tests THEN Len(testPatterns) ELSE 0)
         + Cardinality({k \in 1..Len(flArgs.excludes) : flArgs.excludes[k].ok})
    /\ \A c \in CallIds :
         (\E k \in 1..Len(flArgs.excludes) :
            flArgs.excludes[k].ok /\ MatchString(flArgs.excludes[k], flCalls[c].path))
         => ~flCalls[c].answer

\* C17's case: among the custom patterns one does not compile, and a path
\* that only the custom pattern after it matches was refused, like a path
\* that a baseline pattern matches.
C17_Witness ==
  /\ \E k \in 1..Len(flArgs.excludes) : ~flArgs.excludes[k].ok
  /\ ~flArgs.tests
  /\ Len(flCalls) = 2
  /\ flCalls[1] = [path |-> <<112,107,103,47,102,111,111,95,116,101,115,116,46,103,111>>, answer |-> FALSE]
  /\ flCalls[2] = [path |-> <<98,117,105,108,100,47,109,97,105,110,46,103,111>>, answer |-> FALSE]

\* Some test pattern matches the path.
IsTestPath(path) == \E k \in 1..Len(testPatterns) : MatchString(testPatterns[k], path)

\* C18: the test patterns are in the filter exactly when excludeTests is
\* true; a test path with an allowed extension that nothing else matches is
\* included without excludeTests and refused with it.
C18_TestPatternsIffRequested ==
  flPc \in {"new", "ready"} =>
    /\ \A k \in 1..Len(testPatterns) :
         flArgs.tests <=>
           \E i \in 1..Len(fl.excludePatterns) : fl.excludePatterns[i] = testPatterns[k]
    /\ \A c \in CallIds :
         ( /\ IsTestPath(flCalls[c].path)
           /\ \A i \in 1..Len(alwaysExclude) : ~MatchString(alwaysExclude[i], flCalls[c].path)
           /\ \A k \in 1..Len(flArgs.excludes) :
                ~(flArgs.excludes[k].ok /\ MatchString(flArgs.excludes[k], flCalls[c].path))
           /\ ~IgnoredByGlob(flCalls[c].path)
           /\ ByExtension(flCalls[c].path) )
         => (flCalls[c].answer = ~flArgs.tests)

\* C18's case: without excludeTests pkg/foo_test.go and a file of a tests
\* directory were included.
C18_Witness ==
  /\ ~flArgs.tests
  /\ Len(flCalls) = 2
  /\ flCalls[1] = [path |-> <<112,107,103,47,102,111,111,95,116,101,115,116,46,103,111>>, answer |-> TRUE]
  /\ flCalls[2] = [path |-> <<116,101,115,116,115,47,117,116,105,108,46,103,111>>, answer |-> TRUE]

\* The first byte of a line that is not white space, 0 when there is none.
FirstByte(line) ==
  IF \A i \in 1..Len(line) : line[i] \in {9, 10, 11, 12, 13, 32} THEN 0
  ELSE line[CHOOSE i \in 1..Len(line) :
              /\ line[i] \notin {9, 10, 11, 12, 13, 32}
              /\ \A k \in 1..(i - 1) : line[k] \in {9, 10, 11, 12, 13, 32}]

\* The lines of an ignore file that are neither blank, nor comments ('#'),
\* nor negations ('!').
RuleLines(lines) == SelectSeq(lines, LAMBDA l : FirstByte(l) \notin {0, 35, 33})

\* The lines of an ignore file without its negation lines.
WithoutNegations(lines) == SelectSeq(lines, LAMBDA l : FirstByte(l) # 33)

\* C19: when LoadGitignore returns it has made one glob for each line that is neither blank,
\* nor a comment, nor a negation, and a negation line changes no answer;
\* when the file cannot be opened or respectGitignore is false it returns
\* nil and the glob list stays empty.
C19_IgnoreFileLines ==
  (flPc = "ready" /\ flErr # "unset" /\ flCalls = <<>>) =>
    /\ (fl.respectGitignore /\ ~flFile.openErr) =>
         /\ Len(fl.gitignoreGlobs) = Len(RuleLines(flFile.lines))
         /\ \A p \in AskedPaths :
              ShouldInclude(fl, p) =
                ShouldInclude(
                  LoadGitignore(
                    NewFilter(flArgs.exts, flArgs.excludes, flArgs.gitignore, flArgs.tests),
                    [flFile EXCEPT !.lines = WithoutNegations(flFile.lines)]).f,
                  p)
    /\ (~fl.respectGitignore \/ flFile.openErr) =>
         (flErr = "nil" /\ fl.gitignoreGlobs = <<>>)

\* C19's case: a file with a blank line, a comment, a negation and one rule
\* was loaded into one glob.
C19_Witness ==
  /\ flPc = "ready" /\ flErr = "nil" /\ flCalls = <<>>
  /\ fl.respectGitignore
  /\ \E i, j, k \in 1..Len(flFile.lines) :
       /\ FirstByte(flFile.lines[i]) = 0
       /\ FirstByte(flFile.lines[j]) = 35
       /\ FirstByte(flFile.lines[k]) = 33
  /\ Len(fl.gitignoreGlobs) = 1

---------------------------------------------------------------------------
(* properties of the rendering *)

\* The number of places where t occurs in s.
Occurrences(s, t) == Cardinality({i \in 1..Len(s) : SubAt(s, i, t)})

\* The blocks of the records in order with a separator between consecutive
\* ones.
RECURSIVE JoinBlocks(_)
JoinBlocks(files) ==
  IF files = <<>> THEN <<>>
  ELSE IF Len(files) = 1 THEN RenderFile(files[1])
  ELSE RenderFile(files[1]) \o Separator \o JoinBlocks(Tail(files))

\* C20 as claimed: the output of n records contains exactly max(0, n-1)
\* separators, and an empty result renders to the empty string.
C20_SeparatorCountInOutput ==
  fmPc = "done" =>
    /\ Occurrences(fmOut, Separator) = (IF Len(fmIn) = 0 THEN 0 ELSE Len(fmIn) - 1)
    /\ (fmIn = <<>> => fmOut = <<>>)

\* C20: FormatAsMarkdown renders the records in order, each as its header,
\* a blank line, the fence with the language, the content and the closing
\* fence, and writes max(0, n-1) separators, one between consecutive records
\* and none after the last; an empty result renders to the empty string.  The
\* output contains exactly that many separators when no record's own block
\* contains the separator's text.
C20_SeparatorsBetweenRecords ==
  fmPc = "done" =>
    /\ fmOut = JoinBlocks(fmIn)
    /\ fmSeps = (IF Len(fmIn) = 0 THEN 0 ELSE Len(fmIn) - 1)
    /\ (fmIn = <<>> => fmOut = <<>>)
    /\ (fmIn # <<>> => HasSuffix(fmOut, <<96,96,96>> \o Newline))
    /\ (\A i \in 1..Len(fmIn) : Occurrences(RenderFile(fmIn[i]), Separator) = 0)
         => Occurrences(fmOut, Separator) = fmSeps

\* C20's case: three records whose blocks hold no separator text rendered
\* with two separators.
C20_Witness ==
  /\ fmPc = "done"
  /\ Len(fmIn) = 3
  /\ \A i \in 1..Len(fmIn) : Occurrences(RenderFile(fmIn[i]), Separator) = 0
  /\ fmSeps = 2
  /\ Occurrences(fmOut, Separator) = 2

\* The content of a record as it stands before the closing fence: with a
\* newline added when it does not end with one.
Fenced(content) == IF HasSuffix(content, Newline) THEN content ELSE content \o Newline

\* What an iteration on the record file may add to the output, with or
\* without a separator.
BlockOf(file) ==
  <<70,105,108,101,58,32,46,47>> \o file.RelPath \o Newline \o Newline
  \o <<96,96,96>> \o file.Language \o Newline
  \o Fenced(file.Content)
  \o <<96,96,96>> \o Newline

\* C21 as claimed: every content stands before its closing fence with
\* exactly one newline at its end, FormatAsMarkdown adding one when the
\* content has none, and the records are left as they were.
C21_ExactlyOneNewline ==
  [][ /\ fmIn' = fmIn
      /\ fmIdx' = fmIdx + 1 =>
           /\ fmOut' \in { fmOut \o BlockOf(fmIn[fmIdx']),
                           fmOut \o BlockOf(fmIn[fmIdx']) \o Separator }
           /\ ~HasSuffix(Fenced(fmIn[fmIdx'].Content), Newline \o Newline) ]_vars

\* C21: FormatAsMarkdown writes one newline after a content exactly when the
\* content does not end with one, so that the closing fence starts a line;
\* the newlines a content ends with are all kept, and the records are left
\* as they were.
C21_NewlineBeforeFence ==
  [][ /\ fmIn' = fmIn
      /\ fmIdx' = fmIdx + 1 =>
           fmOut' \in { fmOut \o BlockOf(fmIn[fmIdx']),
                        fmOut \o BlockOf(fmIn[fmIdx']) \o Separator } ]_vars

\* C21's case: a content without a final newline and a content that ends
\* with one were rendered.
C21_Witness ==
  /\ fmPc = "done"
  /\ \E i, k \in 1..Len(fmIn) :
       /\ ~HasSuffix(fmIn[i].Content, Newline)
       /\ HasSuffix(fmIn[k].Content, Newline)
  /\ Len(fmOut) > 0


---------------------------------------------------------------------------
(* C22 *)

\* C22: ValidatePath returns an error for the root, for the home directory
\* exactly, for every directory of the deny-list and for every directory
\* whose parent is the root (rooted, one separator); the call changes
\* nothing but its result; and after a validation error the run has ended
\* and Collect is never called.
C22_ValidatePathRejects ==
  /\ [](LET dir == Abs(vpPath, vpCwd)
            d == dir.path
            mustReject ==
              \/ d = <<47>>
              \/ vpHome # <<>> /\ d = Clean(vpHome)
              \/ \E i \in 1..Len(dangerousDirs) : d = dangerousDirs[i]
              \/ d # <<47>> /\ d[1] = 47 /\ StrCount(d, 47) = 1
        IN  /\ (vpErr # "unset" /\ dir.ok /\ mustReject) => vpErr # "nil"
            /\ (vpErr \notin {"unset", "nil"}) => cliPc = "exit"
            /\ cliPc = "collect" => vpErr = "nil")
  /\ [][vpErr' # vpErr =>
          UNCHANGED << vpArg, vpCwd, vpHome, vpPath, collectVars, filterVars,
                       formatVars >>]_vars

\* "/srv/app/.." names /srv, whose parent is the root: rejected, run ended.
C22_Witness ==
  /\ vpArg = <<47,115,114,118,47,97,112,112,47,46,46>>
  /\ vpErr = "broad"
  /\ cliPc = "exit"

---------------------------------------------------------------------------
(* C23 *)

\* C23: with maxFileSizeMB <= 0 no job is skipped for its size.  With a
\* positive maxFileSizeMB a job whose file opens, stats and is not binary is
\* skipped for its size iff the file has more than maxFileSizeMB * 1024 *
\* 1024 bytes, so that a file exactly at the limit is read; no job at all
\* is skipped for size at or below the limit, and no file above the limit
\* is read.
C23_SizeLimit ==
  \A j \in 1..Len(outcome) :
    outcome[j] # "pending" =>
      LET over == found[j].size > maxFileSizeMB * 1024 * 1024
      IN  /\ maxFileSizeMB <= 0 => outcome[j] # "skipSize"
          /\ maxFileSizeMB > 0 =>
               /\ found[j].clean => (outcome[j] = "skipSize" <=> over)
               /\ outcome[j] = "skipSize" => over
               /\ over => outcome[j] # "read"
               /\ (found[j].clean /\ found[j].size = maxFileSizeMB * 1024 * 1024)
                    => outcome[j] = "read"

\* C23's case: under a positive limit one job's file of exactly
\* maxFileSizeMB * 1048576 bytes was read and another's, one byte longer,
\* was skipped for its size.
C23_Witness ==
  /\ maxFileSizeMB > 0
  /\ \E j \in 1..Len(outcome) :
       /\ found[j] = [size |-> maxFileSizeMB * 1048576, clean |-> TRUE]
       /\ outcome[j] = "read"
  /\ \E j \in 1..Len(outcome) :
       /\ found[j] = [size |-> maxFileSizeMB * 1048576 + 1, clean |-> TRUE]
       /\ outcome[j] = "skipSize"

---------------------------------------------------------------------------
(* C24 *)

\* C24: under the default allow-list and the default exclusions a path with
\* the extension .tf, .tfvars or .hcl outside a .terraform directory passes
\* ShouldInclude, and a path under a .terraform directory and a path ending
\* in .tfstate or .tfstate.backup do not.
C24_TerraformDefaults ==
  \A i \in 1..Len(flCalls) :
    LET p == flCalls[i].path
        underTerraform == HasPrefix(p, <<46,116,101,114,114,97,102,111,114,109,47>>) \/ Contains(p, <<47,46,116,101,114,114,97,102,111,114,109,47>>)
        state == HasSuffix(p, <<46,116,102,115,116,97,116,101>>) \/ HasSuffix(p, <<46,116,102,115,116,97,116,101,46,98,97,99,107,117,112>>)
    IN  /\ (underTerraform \/ state) => ~flCalls[i].answer
        /\ (~underTerraform /\ ~state /\ Ext(p) \in { <<46,116,102>>, <<46,116,102,118,97,114,115>>, <<46,104,99,108>> })
             => flCalls[i].answer

---------------------------------------------------------------------------
(* C25 *)

\* C25: once the walk is over, a non-root directory whose parent was listed
\* and which the filter lets through was itself listed iff not (maxDepth > 0
\* and separators + 1 > maxDepth), so with maxDepth <= 0 every such
\* directory was listed; no job lies beneath a directory over the limit;
\* and in a tree without symbolic links every file of a listed directory
\* that passes the filter is a job, whatever its own depth.
C25_DepthPruning ==
  (pc # "walk" /\ rootErr = "none") =>
    LET wasListed(p) == \E i \in 1..Len(listed) : listed[i] = p
        over(p) == maxDepth > 0 /\ StrCount(p, 47) + 1 > maxDepth
    IN  /\ \A n \in Trees[tree] :
             (/\ n.kind = "dir"
              /\ wasListed(Dir(n.path))
              /\ ShouldInclude(Filters[filter], n.path \o <<47,100,117,109,109,121,46,103,111>>))
               => (wasListed(n.path) <=> ~over(n.path))
        /\ \A j \in 1..Len(fileJobs) :
             \A k \in 1..Len(fileJobs[j].relPath) :
               fileJobs[j].relPath[k] = 47 => ~over(SubSeq(fileJobs[j].relPath, 1, k - 1))
        /\ (\A m \in Trees[tree] : m.kind # "symlink") =>
             \A n \in Trees[tree] :
               (/\ n.kind = "file"
                /\ wasListed(Dir(n.path))
                /\ ShouldInclude(Filters[filter], n.path))
                 => \E j \in 1..Len(fileJobs) : fileJobs[j].relPath = n.path

\* C25's case: with maxDepth = 1 the directory sub (depth 1) was listed and
\* sub/deep (depth 2) was not; sub/b.txt, a file at depth 2, is a job and
\* sub/deep/c.go is not.
C25_Witness ==
  /\ pc # "walk" /\ rootErr = "none"
  /\ tree = "depth" /\ filter = "default" /\ maxDepth = 1
  /\ \E i \in 1..Len(listed) : listed[i] = <<115,117,98>>
  /\ \A i \in 1..Len(listed) : listed[i] # <<115,117,98,47,100,101,101,112>>
  /\ \E j \in 1..Len(fileJobs) : fileJobs[j].relPath = <<115,117,98,47,98,46,116,120,116>>
  /\ \A j \in 1..Len(fileJobs) : fileJobs[j].relPath # <<115,117,98,47,100,101,101,112,47,99,46,103,111>>

---------------------------------------------------------------------------
(* C26 *)

\* C26 as claimed: when Collect returns without cancellation, every job
\* whose file opens, stats and reads, has no NUL byte in its first 8 KiB
\* and is within the size limit has a record in the result, a zero-length
\* file included.
C26_CompleteResult ==
  (Returned /\ ~ctxDone /\ ret.hasResult) =>
    \A j \in Jobs :
      (/\ found[j].clean
       /\ ~(maxFileSizeMB > 0 /\ found[j].size > maxFileSizeMB * 1024 * 1024))
        => fileJobs[j].relPath \in RelPathsOf(ret.result.Files)

---------------------------------------------------------------------------
(* C27 *)

\* C27 as claimed: under every filter, once the walk of a tree without
\* symbolic links is over, a regular file is a job when its own path passes
\* ShouldInclude, no ancestor directory is over the depth limit and no
\* ancestor directory's path is matched by an exclusion pattern or an
\* ignore-glob of the filter.
C27_PruningSound ==
  (pc # "walk" /\ rootErr = "none" /\ \A m \in Trees[tree] : m.kind # "symlink") =>
    LET f == Filters[filter]
        targeted(a) ==
          \/ \E i \in 1..Len(f.excludePatterns) : MatchString(f.excludePatterns[i], a)
          \/ \E i \in 1..Len(f.gitignoreGlobs) : GlobMatch(f.gitignoreGlobs[i], a)
        over(a) == maxDepth > 0 /\ StrCount(a, 47) + 1 > maxDepth
    IN  \A n \in Trees[tree] :
          (/\ n.kind = "file"
           /\ ShouldInclude(f, n.path)
           /\ \A k \in 1..Len(n.path) :
                n.path[k] = 47 =>
                  /\ ~over(SubSeq(n.path, 1, k - 1))
                  /\ ~targeted(SubSeq(n.path, 1, k - 1)))
            => \E j \in 1..Len(fileJobs) : fileJobs[j].relPath = n.path

---------------------------------------------------------------------------
(* C28 *)

\* C28 as claimed: once the walk is over, a regular file that stands in a
\* listed, readable directory after a symbolic link to a directory, and
\* that passes the filter, is a job, whether or not the link was skipped
\* because its target was already visited.
C28_LinkSkipIsLocal ==
  (pc # "walk" /\ rootErr = "none") =>
    \A l \in Trees[tree] :
      (/\ l.kind = "symlink"
       /\ l.target # <<>>
       /\ \E i \in 1..Len(listed) : listed[i] = Dir(l.path)
       /\ ~NodeAt(Dir(l.path)).readErr)
        => \A n \in Trees[tree] :
             (/\ n.kind = "file"
              /\ Dir(n.path) = Dir(l.path)
              /\ StrLess(Base(l.path), Base(n.path))
              /\ ShouldInclude(Filters[filter], n.path))
               => \E j \in 1..Len(fileJobs) : fileJobs[j].relPath = n.path

---------------------------------------------------------------------------
(* C29 *)

====
